---- MODULE Spec2Model ----
(***************************************************************************)
(* MindShift (src/MindShift.py): a Streamlit page whose main() is re-run   *)
(* from top to bottom on every user interaction.  The durable state is     *)
(* st.session_state plus the values the widgets keep between runs.         *)
(*                                                                         *)
(*   Spec      the session: one action per kind of interaction, each one   *)
(*             a whole run of main()                                       *)
(*   SpecGen   the two generators applied to bounded responses             *)
(*   SpecLevel the performance-level expression on bounded score/total     *)
(***************************************************************************)
EXTENDS Integers, Sequences, FiniteSets, TLC

VARIABLES
    course_url,          \* value kept by st.text_input("Enter the course URL:")
    course_topics,       \* st.session_state["course_topics"]
    quizzes,             \* st.session_state["quizzes"]
    current_quiz,        \* st.session_state["current_quiz"]       (<<>> = key absent)
    selected_answers,    \* st.session_state["selected_answers"]   (index -> option text)
    quiz_submitted,      \* st.session_state["quiz_submitted"]     (absent = FALSE)
    last_quiz_score,     \* st.session_state["last_quiz_score"]    (<<>> = key absent, <<n>> = n)
    radio,               \* index kept by the st.radio widgets question_<idx>
    roadmap,             \* st.session_state["roadmap"]            (<<>> = key absent)
    post_quiz,           \* st.session_state["post_quiz"]
    post_quiz_answers,   \* st.session_state["post_quiz_answers"]
    post_quiz_submitted, \* st.session_state["post_quiz_submitted"]
    last_post_quiz_score,\* st.session_state["last_post_quiz_score"]
    post_radio,          \* index kept by the st.radio widgets post_question_<idx>
    run,                 \* what the last run of main() did (event, how far it got, messages)
    gen,                 \* SpecGen: last generator call (function, response, returned list)
    lvl                  \* SpecLevel: last evaluation of the performance-level expression

vars == <<course_url, course_topics, quizzes, current_quiz, selected_answers,
          quiz_submitted, last_quiz_score, radio, roadmap, post_quiz,
          post_quiz_answers, post_quiz_submitted, last_post_quiz_score,
          post_radio, run, gen, lvl>>

sessionVars == <<course_url, course_topics, quizzes, current_quiz, selected_answers,
                 quiz_submitted, last_quiz_score, radio, roadmap, post_quiz,
                 post_quiz_answers, post_quiz_submitted, last_post_quiz_score,
                 post_radio, run>>

(***************************************************************************)
(* Bounds                                                                  *)
(***************************************************************************)
MaxBatch == 2           \* SpecGen: entries in one parsed response
MaxTotal == 14          \* SpecLevel: largest number of questions
MaxQuiz == 2            \* SpecQuiz, SpecAnswers: entries in one parsed response
MaxHistory == 3         \* SpecQuiz: no run makes the history longer than this
MaxSessionQuiz == 1     \* Spec: entries in one parsed response
MaxSessionHistory == 2  \* Spec: no run makes the history longer than this
MaxAnswerHistory == 1   \* SpecAnswers: no run makes the history longer than this

(***************************************************************************)
(* Values produced by json.loads                                           *)
(***************************************************************************)
JStr(s) == [t |-> "str", s |-> s]
JBool(b) == [t |-> "bool", b |-> b]
\* a dict keeps insertion order: a sequence of <<key, value>> with unique keys
JDict(items) == [t |-> "dict", items |-> items]
JList(elems) == [t |-> "list", elems |-> elems]

IsDict(v) == v.t = "dict"
IsStr(v) == v.t = "str"
IsBool(v) == v.t = "bool"

\* key in d
Has(d, k) == \E i \in DOMAIN d.items : d.items[i][1] = k
\* d[key]
Get(d, k) == d.items[CHOOSE i \in DOMAIN d.items : d.items[i][1] = k][2]
\* list(d.values())
Values(d) == [i \in DOMAIN d.items |-> d.items[i][2]]

\* a == b on parsed values
PyEq(a, b) == a.t = b.t /\ a = b

\* x in container, as Python evaluates it: "T", "F" or "raise"
PyIn(x, c) ==
    IF IsDict(c) THEN
        IF x.t \in {"dict", "list"} THEN "raise"            \* unhashable key
        ELSE IF IsStr(x) /\ Has(c, x.s) THEN "T" ELSE "F"
    ELSE IF c.t = "list" THEN
        IF \E i \in DOMAIN c.elems : PyEq(c.elems[i], x) THEN "T" ELSE "F"
    ELSE IF IsStr(c) THEN
        IF IsStr(x) THEN (IF x.s = c.s THEN "T" ELSE "F")   \* substring test on one-word texts
        ELSE "raise"                                        \* 'in <string>' requires string
    ELSE "raise"                                            \* bool is not iterable

RECURSIVE SelectSeq2(_, _)
\* the list comprehension [q for q in s if keep[q]] over indices
SelectSeq2(s, keep) ==
    IF s = <<>> THEN <<>>
    ELSE LET rest == SelectSeq2(Tail(s), [i \in 1..(Len(s) - 1) |-> keep[i + 1]])
         IN IF keep[1] THEN <<Head(s)>> \o rest ELSE rest

(***************************************************************************)
(* The generators.  A response of the generative-text service is           *)
(*   [kind |-> "error"]        the call (or anything after it) raises      *)
(*   [kind |-> "unparsable"]   json.loads raises JSONDecodeError           *)
(*   [kind |-> "json", value |-> v]   json.loads returns v                 *)
(* A generator returns [out |-> list, msgs |-> messages shown by st.*].    *)
(***************************************************************************)
\* the condition of fetch_questions' comprehension on one entry
PreKeep(q) ==
    IF IsDict(q)
       /\ Has(q, "mcq") /\ IsStr(Get(q, "mcq"))
       /\ Has(q, "options") /\ IsDict(Get(q, "options"))
       /\ Has(q, "correct")
    THEN PyIn(Get(q, "correct"), Get(q, "options"))
    ELSE "F"

\* the condition of generate_post_learning_quiz's comprehension on one entry
PostKeep(q) ==
    IF ~IsDict(q) \/ ~Has(q, "type") THEN "raise"               \* question["type"]
    ELSE IF PyEq(Get(q, "type"), JStr("mcq")) /\ Has(q, "options") THEN
        IF ~Has(q, "correct") THEN "raise"                      \* question["correct"]
        ELSE PyIn(Get(q, "correct"), Get(q, "options"))         \* "F" falls to the true_false arm, which is false
    ELSE IF PyEq(Get(q, "type"), JStr("true_false"))
            /\ Has(q, "correct") /\ IsBool(Get(q, "correct")) THEN "T"
    ELSE "F"

\* the element of a one-element set: The({F(v) : v \in {e}}) is F(e) with e
\* evaluated once, as a local variable of the code is
The(S) == CHOOSE x \in S : TRUE

\* [question for question in questions if <condition>]
Retained(questions, verdict) ==
    SelectSeq2(questions, [i \in DOMAIN questions |-> verdict[i] = "T"])

\* fetch_questions after json.loads: the comprehension, the warning, the return
PreOutcome(questions, verdict) ==
    IF \E i \in DOMAIN questions : verdict[i] = "raise"
    THEN [out |-> <<>>, msgs |-> {"error: Error generating quiz"}]   \* except Exception
    ELSE The({[out |-> valid_questions,
               msgs |-> IF valid_questions = <<>>
                        THEN {"warning: No valid questions were generated"}
                        ELSE {}] : valid_questions \in {Retained(questions, verdict)}})

fetch_questions(response) ==
    IF response.kind = "error" THEN
        [out |-> <<>>, msgs |-> {"error: Error generating quiz"}]
    ELSE IF response.kind = "unparsable" THEN
        [out |-> <<>>, msgs |-> {"error: Error parsing JSON from OpenAI"}]
    ELSE The({PreOutcome(response.value.elems, verdict) :
                 verdict \in {[i \in DOMAIN response.value.elems |->
                                  PreKeep(response.value.elems[i])]}})

\* generate_post_learning_quiz after json.loads: the comprehension and the return
PostOutcome(questions, verdict) ==
    IF \E i \in DOMAIN questions : verdict[i] = "raise"
    THEN [out |-> <<>>, msgs |-> {"error: Error generating post-learning quiz"}]
    ELSE [out |-> Retained(questions, verdict), msgs |-> {}]

generate_post_learning_quiz(response) ==
    IF response.kind = "error" THEN
        [out |-> <<>>, msgs |-> {"error: Error generating post-learning quiz"}]
    ELSE IF response.kind = "unparsable" THEN
        [out |-> <<>>, msgs |-> {"error: Error parsing JSON from OpenAI"}]
    ELSE The({PostOutcome(response.value.elems, verdict) :
                 verdict \in {[i \in DOMAIN response.value.elems |->
                                  PostKeep(response.value.elems[i])]}})

(***************************************************************************)
(* Entries the service may return                                          *)
(***************************************************************************)
OptXY == JDict(<< <<"a", JStr("x")>>, <<"b", JStr("y")>> >>)
OptX == JDict(<< <<"a", JStr("x")>> >>)

Mcq(prompt, options, correct) ==
    JDict(<< <<"mcq", JStr(prompt)>>, <<"options", options>>, <<"correct", JStr(correct)>> >>)
PostMcq(prompt, options, correct) ==
    JDict(<< <<"type", JStr("mcq")>>, <<"question", JStr(prompt)>>,
             <<"options", options>>, <<"correct", JStr(correct)>> >>)
PostTF(prompt, correct) ==
    JDict(<< <<"type", JStr("true_false")>>, <<"question", JStr(prompt)>>,
             <<"correct", JBool(correct)>> >>)

\* pre-learning entries: two well-formed ones and the malformed kinds
PreGoodA == Mcq("q1", OptXY, "a")
PreGoodB == Mcq("q2", OptXY, "b")
PreOneOption == Mcq("q3", OptX, "a")
PreNoOptions == JDict(<< <<"mcq", JStr("q4")>>, <<"correct", JStr("a")>> >>)
PreNoCorrect == JDict(<< <<"mcq", JStr("q5")>>, <<"options", OptXY>> >>)
PreBadCorrect == Mcq("q6", OptXY, "c")
PreNoPrompt == JDict(<< <<"options", OptXY>>, <<"correct", JStr("a")>> >>)
PreNotDict == JStr("oops")

\* post-learning entries
PostGoodMcq == PostMcq("p1", OptXY, "a")
PostGoodTF == PostTF("p2", TRUE)
PostNoType == JDict(<< <<"question", JStr("p3")>>, <<"options", OptXY>>, <<"correct", JStr("a")>> >>)
PostNoOptions == JDict(<< <<"type", JStr("mcq")>>, <<"question", JStr("p4")>>, <<"correct", JStr("a")>> >>)
PostNoCorrect == JDict(<< <<"type", JStr("mcq")>>, <<"question", JStr("p5")>>, <<"options", OptXY>> >>)
PostBadCorrect == PostMcq("p6", OptXY, "c")
PostNoPrompt == JDict(<< <<"type", JStr("mcq")>>, <<"options", OptXY>>, <<"correct", JStr("a")>> >>)
PostTFNotBool == JDict(<< <<"type", JStr("true_false")>>, <<"question", JStr("p7")>>,
                          <<"correct", JStr("true")>> >>)

PreEntries == {PreGoodA, PreGoodB, PreOneOption, PreNoOptions, PreNoCorrect,
               PreBadCorrect, PreNoPrompt, PreNotDict}
PostEntries == {PostGoodMcq, PostGoodTF, PostNoType, PostNoOptions, PostNoCorrect,
                PostBadCorrect, PostNoPrompt, PostTFNotBool}

SeqsUpTo(S, n) == UNION {[1..k -> S] : k \in 0..n}

Responses(entries, n) ==
    {[kind |-> "error"], [kind |-> "unparsable"]}
    \cup {[kind |-> "json", value |-> JList(b)] : b \in SeqsUpTo(entries, n)}

(***************************************************************************)
(* SpecGen: the generators on every bounded response                       *)
(***************************************************************************)
NoCall == [fn |-> "none", response |-> [kind |-> "error"], out |-> <<>>, msgs |-> {}]

CallFetchQuestions(response) ==
    /\ \E res \in {fetch_questions(response)} :
           gen' = [fn |-> "fetch_questions", response |-> response,
                   out |-> res.out, msgs |-> res.msgs]
    /\ UNCHANGED <<sessionVars, lvl>>

CallGeneratePostLearningQuiz(response) ==
    /\ \E res \in {generate_post_learning_quiz(response)} :
           gen' = [fn |-> "generate_post_learning_quiz", response |-> response,
                   out |-> res.out, msgs |-> res.msgs]
    /\ UNCHANGED <<sessionVars, lvl>>

(***************************************************************************)
(* The performance level (main, Roadmap tab).  total_questions * 0.5 and   *)
(* total_questions * 0.8 are IEEE-754 double products: a double with a     *)
(* 53-bit significand m stands for m * 2^-53 and is kept as three limbs    *)
(* <<hi, mid, lo>> of 20 bits (hi carries the rest).                       *)
(***************************************************************************)
Limb == 2^20
Point5 == <<4096, 0, 0>>                \* 0.5 = 0x1.0000000000000p-1
Point8 == <<6553, 629145, 629146>>      \* 0.8 = 0x1.999999999999ap-1

RECURSIVE BitLen(_)
BitLen(n) == IF n = 0 THEN 0 ELSE 1 + BitLen(n \div 2)

\* the exact product n * m, limbs normalised
ExactMul(n, m) ==
    LET lo == n * m[3]
        mid == n * m[2] + lo \div Limb
        hi == n * m[1] + mid \div Limb
    IN  <<hi, mid % Limb, lo % Limb>>

\* round to nearest, ties to even, to 53 significant bits
RoundDouble(p) ==
    LET d == BitLen(p[1]) - 13           \* bits below the 53 kept ones
    IN  IF d <= 0 THEN p
        ELSE LET unit == 2^d
                 rem == p[3] % unit
                 kept == p[3] - rem
                 odd == (kept \div unit) % 2 = 1
                 up == rem * 2 > unit \/ (rem * 2 = unit /\ odd)
                 lo == IF up THEN kept + unit ELSE kept
                 mid == p[2] + lo \div Limb
             IN  <<p[1] + mid \div Limb, mid % Limb, lo % Limb>>

\* int * double
FloatMul(n, m) == RoundDouble(ExactMul(n, m))

\* int <= double (the int converts exactly)
IntLeFloat(s, f) ==
    LET hi == s * 8192                   \* s * 2^53 = (s * 2^13) * 2^40
    IN  hi <= f[1]

IntLtFloat(s, f) ==
    LET hi == s * 8192
    IN  hi < f[1] \/ (hi = f[1] /\ (f[2] > 0 \/ f[3] > 0))

performance_level_strict(user_score, total_questions) ==
    IF IntLtFloat(user_score, FloatMul(total_questions, Point5)) THEN "Beginner"
    ELSE IF IntLtFloat(user_score, FloatMul(total_questions, Point8)) THEN "Intermediate"
    ELSE "Advanced"

performance_level(user_score, total_questions) ==
    IF IntLeFloat(user_score, FloatMul(total_questions, Point5)) THEN "Beginner"
    ELSE IF IntLeFloat(user_score, FloatMul(total_questions, Point8)) THEN "Intermediate"
    ELSE "Advanced"

(***************************************************************************)
(* SpecLevel: the expression on every bounded score and total              *)
(***************************************************************************)
NoLevel == [user_score |-> 0, total_questions |-> 0, level |-> "none"]

EvalPerformanceLevel(s, t) ==
    /\ lvl' = [user_score |-> s, total_questions |-> t, level |-> performance_level(s, t)]
    /\ UNCHANGED <<sessionVars, gen>>

(***************************************************************************)
(* One run of main().  The run works on a record s of the session state    *)
(* and the widget values, and on what it has shown so far:                 *)
(*   crashed   "" or the place where an exception left main()              *)
(*   msgs      messages shown with st.success / st.warning / st.error      *)
(*   rendered  buttons the run has put on the page                         *)
(*   gen       "none", or the outcome "ok" / "failed" of a quiz generation *)
(*   level     the performance level computed on the Roadmap tab           *)
(*   returned  <<text>> when the service returned a roadmap text to the    *)
(*             run, else <<>>                                              *)
(*   course_data  the local course_data of the run                         *)
(***************************************************************************)
\* texts the service may return for a roadmap
RoadmapTexts == {"", "r1"}
ScrapeData == [learn |-> <<"topic">>, skills |-> <<>>]
NoData == [learn |-> <<>>, skills |-> <<>>]
\* outcomes of requests.get in scrape_course
ScrapeOutcomes == {"ok", "non200", "exception"}

Session ==
    [course_url |-> course_url, course_topics |-> course_topics, quizzes |-> quizzes,
     current_quiz |-> current_quiz, selected_answers |-> selected_answers,
     quiz_submitted |-> quiz_submitted, last_quiz_score |-> last_quiz_score,
     radio |-> radio, roadmap |-> roadmap, post_quiz |-> post_quiz,
     post_quiz_answers |-> post_quiz_answers, post_quiz_submitted |-> post_quiz_submitted,
     last_post_quiz_score |-> last_post_quiz_score, post_radio |-> post_radio]

StartRun(s) ==
    [s |-> s, crashed |-> "", msgs |-> {}, rendered |-> {}, gen |-> "none",
     level |-> "none", returned |-> <<>>, course_data |-> NoData]

\* scrape_course(url): the pair (data, error), unless requests.get raises
scrape_course(outcome) ==
    IF outcome = "exception" THEN [raised |-> TRUE, data |-> NoData, error |-> ""]
    ELSE IF outcome = "non200"
    THEN [raised |-> FALSE, data |-> NoData, error |-> "Failed to fetch content"]
    ELSE [raised |-> FALSE, data |-> ScrapeData, error |-> ""]

\* with tab1
HomeTab(r, outcome) ==
    IF r.s.course_url = "" THEN r
    ELSE LET res == scrape_course(outcome)
         IN  IF res.raised THEN [r EXCEPT !.crashed = "tab1"]
             ELSE IF res.error # "" THEN [r EXCEPT !.msgs = @ \cup {"error: " \o res.error}]
             ELSE [r EXCEPT !.course_data = res.data,
                            !.s.course_topics = res.data.learn]

\* the first question whose st.radio(..., index=1) raises: fewer than two options
FirstBadRadio(quiz) ==
    LET bad == {i \in DOMAIN quiz : Len(Values(Get(quiz[i], "options"))) < 2}
    IN  IF bad = {} THEN 0 ELSE CHOOSE i \in bad : \A j \in bad : i <= j

\* the position an st.radio returns: the stored one when the same widget (same
\* key, label and options) was on the page in the previous run, else the default
RadioValue(stored, oldQuiz, quiz, i, default) ==
    IF i \in DOMAIN stored /\ i \in DOMAIN oldQuiz
       /\ Values(Get(oldQuiz[i], "options")) = Values(Get(quiz[i], "options"))
    THEN stored[i] ELSE default

\* question["options"][question["correct"]]
correct_option(question) == Get(Get(question, "options"), Get(question, "correct").s)

\* selected_answers.get(idx): <<>> stands for None
AnswerAt(answers, i) == IF i \in DOMAIN answers THEN <<answers[i]>> ELSE <<>>

\* the scoring loop of 'Submit Answers'
PreScoreByKey(quiz, answers) ==
    Cardinality({i \in DOMAIN quiz : AnswerAt(answers, i) = <<Get(quiz[i], "correct")>>})
PreScore(quiz, answers) ==
    Cardinality({i \in DOMAIN quiz : AnswerAt(answers, i) = <<correct_option(quiz[i])>>})

\* whether 'Submit Answers' is evaluated and acted on
SubmitAllowedAlways(submitted) == TRUE
SubmitAllowed(submitted) == ~submitted

\* the history entry appended by the results block
HistoryEntry(score, total) == [date |-> "today", score |-> score, total |-> total]

\* 'Generate Quiz' clicked: text_content = str(course_data) + text_area is never
\* blank (str({}) is "{}"), so fetch_questions is always called
QuizGeneratedKeepAnswers(r, res) ==
    IF res.out # <<>> THEN
        [r EXCEPT !.rendered = @ \cup {"Generate Quiz"},
                  !.s.current_quiz = res.out,
                  !.s.quiz_submitted = FALSE,
                  !.gen = "ok",
                  !.msgs = @ \cup res.msgs \cup {"success: Quiz generated successfully!"}]
    ELSE [r EXCEPT !.rendered = @ \cup {"Generate Quiz"},
                   !.gen = "failed",
                   !.msgs = @ \cup res.msgs
                              \cup {"error: Failed to generate questions. Try again."}]
QuizGenerated(r, res) ==
    IF res.out # <<>> THEN
        [r EXCEPT !.rendered = @ \cup {"Generate Quiz"},
                  !.s.current_quiz = res.out,
                  !.s.selected_answers = <<>>,
                  !.s.quiz_submitted = FALSE,
                  !.gen = "ok",
                  !.msgs = @ \cup res.msgs \cup {"success: Quiz generated successfully!"}]
    ELSE [r EXCEPT !.rendered = @ \cup {"Generate Quiz"},
                   !.gen = "failed",
                   !.msgs = @ \cup res.msgs
                              \cup {"error: Failed to generate questions. Try again."}]

QuizGenerate(r, ev, response) ==
    IF r.crashed # "" THEN r
    ELSE IF ev # "Generate Quiz" THEN [r EXCEPT !.rendered = @ \cup {"Generate Quiz"}]
    ELSE The({QuizGenerated(r, res) : res \in {fetch_questions(response)}})

\* the display loop: one st.radio per question, its value stored in selected_answers
QuizDisplayed(r, old, bad) ==
    LET quiz == r.s.current_quiz
        shown == IF bad = 0 THEN DOMAIN quiz ELSE 1..(bad - 1)
    IN  [r EXCEPT !.crashed = IF bad = 0 THEN "" ELSE "tab2",
                  !.s.radio = [i \in shown |->
                                  RadioValue(old.radio, old.current_quiz, quiz, i, 2)],
                  !.s.selected_answers =
                      [i \in DOMAIN r.s.selected_answers \cup shown |->
                          IF i \in shown
                          THEN Values(Get(quiz[i], "options"))[
                                   RadioValue(old.radio, old.current_quiz, quiz, i, 2)]
                          ELSE r.s.selected_answers[i]]]

QuizDisplay(r, old) ==
    IF r.crashed # "" THEN r
    ELSE IF r.s.current_quiz = <<>> THEN [r EXCEPT !.s.radio = <<>>]
    ELSE The({QuizDisplayed(r, old, bad) : bad \in {FirstBadRadio(r.s.current_quiz)}})

\* 'Submit Answers'
QuizSubmit(r, ev) ==
    IF r.crashed # "" \/ r.s.current_quiz = <<>> THEN r
    ELSE IF ~SubmitAllowed(r.s.quiz_submitted) THEN r
    ELSE IF ev # "Submit Answers" THEN [r EXCEPT !.rendered = @ \cup {"Submit Answers"}]
    ELSE [r EXCEPT !.rendered = @ \cup {"Submit Answers"},
                   !.s.quiz_submitted = TRUE,
                   !.s.last_quiz_score = <<PreScore(r.s.current_quiz, r.s.selected_answers)>>]

\* the results block, with the append to the history
QuizResultsAnyScore(r) ==
    IF r.crashed # "" \/ r.s.current_quiz = <<>> \/ r.s.last_quiz_score = <<>> THEN r
    ELSE [r EXCEPT !.s.quizzes =
              Append(@, HistoryEntry(r.s.last_quiz_score[1], Len(r.s.current_quiz)))]
QuizResults(r) ==
    IF r.crashed # "" \/ r.s.current_quiz = <<>> \/ ~r.s.quiz_submitted THEN r
    ELSE [r EXCEPT !.s.quizzes =
              Append(@, HistoryEntry(r.s.last_quiz_score[1], Len(r.s.current_quiz)))]

\* with tab2
QuizTab(r, old, ev, response) ==
    The({QuizResults(r3) :
            r3 \in {QuizSubmit(r2, ev) :
                r2 \in {QuizDisplay(r1, old) :
                    r1 \in {QuizGenerate(r, ev, response)}}}})

\* st.session_state["roadmap"] after the try block of 'Generate Roadmap': the
\* assignment is reached only when the ChatCompletion call returned
RoadmapStoredCleared(old, response) == IF response = "error" THEN <<>> ELSE <<response>>
RoadmapStored(old, response) == IF response = "error" THEN old ELSE <<response>>

\* with tab3; response is "error" when the ChatCompletion call raises, else the text
RoadmapTab(r, ev, response) ==
    IF r.crashed # "" THEN r
    ELSE IF r.s.last_quiz_score = <<>> THEN
        [r EXCEPT !.msgs = @ \cup {"warning: Complete a quiz to unlock the roadmap feature."}]
    ELSE IF ev # "Generate Roadmap" THEN
        [r EXCEPT !.rendered = @ \cup {"Generate Roadmap"},
                  !.level = performance_level(r.s.last_quiz_score[1], Len(r.s.current_quiz))]
    ELSE IF response = "error" THEN
        [r EXCEPT !.rendered = @ \cup {"Generate Roadmap"},
                  !.level = performance_level(r.s.last_quiz_score[1], Len(r.s.current_quiz)),
                  !.s.roadmap = RoadmapStored(@, response),
                  !.msgs = @ \cup {"error: Error generating roadmap"}]
    ELSE [r EXCEPT !.rendered = @ \cup {"Generate Roadmap"},
                   !.level = performance_level(r.s.last_quiz_score[1], Len(r.s.current_quiz)),
                   !.s.roadmap = RoadmapStored(@, response),
                   !.returned = <<response>>,
                   !.msgs = @ \cup {"success: Roadmap generated!"}]

\* the post-learning gate: "roadmap" in st.session_state and st.session_state["roadmap"]
PostGateOpenAlways(rm) == TRUE
PostGateOpen(rm) == rm # <<>> /\ rm[1] # ""

\* the first post-quiz question whose display raises: question['question'] is missing
FirstBadPost(quiz) ==
    LET bad == {i \in DOMAIN quiz : ~Has(quiz[i], "question")}
    IN  IF bad = {} THEN 0 ELSE CHOOSE i \in bad : \A j \in bad : i <= j

IsMcq(question) == PyEq(Get(question, "type"), JStr("mcq"))

\* the options of the st.radio of a post-quiz question
PostOptions(question) ==
    IF IsMcq(question) THEN Values(Get(question, "options"))
    ELSE <<JStr("True"), JStr("False")>>

PostRadioValue(stored, oldQuiz, quiz, i) ==
    IF i \in DOMAIN stored /\ i \in DOMAIN oldQuiz
       /\ PostOptions(oldQuiz[i]) = PostOptions(quiz[i])
    THEN stored[i] ELSE 1

\* what the display loop stores in post_quiz_answers[idx]
PostAnswer(question, position) ==
    IF IsMcq(question) THEN PostOptions(question)[position]
    ELSE JBool(PostOptions(question)[position] = JStr("True"))

\* user_answer == correct_answer in the post-quiz scoring loop
PostMatch(question, user_answer) ==
    user_answer # <<>> /\ PyEq(user_answer[1], Get(question, "correct"))

\* the scoring loop of 'Submit Post-learning Quiz'
PostScore(quiz, answers) ==
    Cardinality({i \in DOMAIN quiz : PostMatch(quiz[i], AnswerAt(answers, i))})

\* the gate and 'Generate Post-learning Quiz'
PostGenerated(r, res) ==
    IF res.out # <<>> THEN
        [r EXCEPT !.rendered = @ \cup {"Generate Post-learning Quiz"},
                  !.s.post_quiz = res.out,
                  !.s.post_quiz_answers = <<>>,
                  !.s.post_quiz_submitted = FALSE,
                  !.gen = "ok",
                  !.msgs = @ \cup res.msgs
                             \cup {"success: Post-learning Quiz generated successfully!"}]
    ELSE [r EXCEPT !.rendered = @ \cup {"Generate Post-learning Quiz"},
                   !.gen = "failed",
                   !.msgs = @ \cup res.msgs
                              \cup {"error: Failed to generate post-learning questions. Try again."}]

PostGenerate(r, ev, response) ==
    IF r.crashed # "" THEN r
    ELSE IF ~PostGateOpen(r.s.roadmap) THEN
        [r EXCEPT !.msgs = @ \cup {"warning: Generate a roadmap first"}]
    ELSE IF ev # "Generate Post-learning Quiz" THEN
        [r EXCEPT !.rendered = @ \cup {"Generate Post-learning Quiz"}]
    ELSE The({PostGenerated(r, res) : res \in {generate_post_learning_quiz(response)}})

\* the display loop of the post-quiz
PostDisplayed(r, old, bad) ==
    LET quiz == r.s.post_quiz
        shown == IF bad = 0 THEN DOMAIN quiz ELSE 1..(bad - 1)
    IN  [r EXCEPT !.crashed = IF bad = 0 THEN "" ELSE "tab4",
                  !.s.post_radio = [i \in shown |->
                                       PostRadioValue(old.post_radio, old.post_quiz, quiz, i)],
                  !.s.post_quiz_answers =
                      [i \in DOMAIN r.s.post_quiz_answers \cup shown |->
                          IF i \in shown
                          THEN PostAnswer(quiz[i],
                                          PostRadioValue(old.post_radio, old.post_quiz, quiz, i))
                          ELSE r.s.post_quiz_answers[i]]]

PostDisplay(r, old) ==
    IF r.crashed # "" THEN r
    ELSE IF r.s.post_quiz = <<>> THEN [r EXCEPT !.s.post_radio = <<>>]
    ELSE The({PostDisplayed(r, old, bad) : bad \in {FirstBadPost(r.s.post_quiz)}})

\* 'Submit Post-learning Quiz'
PostSubmit(r, ev) ==
    IF r.crashed # "" \/ r.s.post_quiz = <<>> THEN r
    ELSE IF ~SubmitAllowed(r.s.post_quiz_submitted) THEN r
    ELSE IF ev # "Submit Post-learning Quiz"
         THEN [r EXCEPT !.rendered = @ \cup {"Submit Post-learning Quiz"}]
    ELSE [r EXCEPT !.rendered = @ \cup {"Submit Post-learning Quiz"},
                   !.s.post_quiz_submitted = TRUE,
                   !.s.last_post_quiz_score =
                       <<PostScore(r.s.post_quiz, r.s.post_quiz_answers)>>]

\* with tab4
PostQuizTab(r, old, ev, response) ==
    The({PostSubmit(r2, ev) :
            r2 \in {PostDisplay(r1, old) :
                r1 \in {PostGenerate(r, ev, response)}}})

\* widgets a run did not reach are no longer on the page: their values are dropped
DropUnrendered(r) ==
    IF r.crashed = "tab1" THEN [r EXCEPT !.s.radio = <<>>, !.s.post_radio = <<>>]
    ELSE IF r.crashed = "tab2" THEN [r EXCEPT !.s.post_radio = <<>>]
    ELSE r

\* main(): s is the state with the widget change of the interaction applied
main(s, ev, outcome, response) ==
    The({DropUnrendered(r4) :
            r4 \in {PostQuizTab(r3, s, ev, response) :
                r3 \in {RoadmapTab(r2, ev, response) :
                    r2 \in {QuizTab(r1, s, ev, response) :
                        r1 \in {HomeTab(r0, outcome) :
                            r0 \in {StartRun(s)}}}}}})

(***************************************************************************)
(* The interactions.  Every action is one interaction followed by the      *)
(* whole run of main() it triggers.  b bounds the inputs of a              *)
(* specification: b.pre and b.post are the responses the service may give  *)
(* to the two generators, b.urls the URLs the user may type, b.cap the     *)
(* longest history.                                                        *)
(***************************************************************************)
NoResponse == [kind |-> "error"]

\* st.session_state of a new session after lines 168-171, and widgets at their defaults
BlankScored ==
    [course_url |-> "", course_topics |-> <<>>, quizzes |-> <<>>,
     current_quiz |-> <<>>, selected_answers |-> <<>>,
     quiz_submitted |-> FALSE, last_quiz_score |-> <<0>>,
     radio |-> <<>>, roadmap |-> <<>>, post_quiz |-> <<>>,
     post_quiz_answers |-> <<>>, post_quiz_submitted |-> FALSE,
     last_post_quiz_score |-> <<>>, post_radio |-> <<>>]
Blank ==
    [course_url |-> "", course_topics |-> <<>>, quizzes |-> <<>>,
     current_quiz |-> <<>>, selected_answers |-> <<>>,
     quiz_submitted |-> FALSE, last_quiz_score |-> <<>>,
     radio |-> <<>>, roadmap |-> <<>>, post_quiz |-> <<>>,
     post_quiz_answers |-> <<>>, post_quiz_submitted |-> FALSE,
     last_post_quiz_score |-> <<>>, post_radio |-> <<>>]

\* the outcomes a run can see from requests.get: it is only called with a URL
Outcomes(s) == IF s.course_url = "" THEN {"ok"} ELSE ScrapeOutcomes

\* store what the run of main() left behind
Finish(b, ev, result) ==
    \E r \in {result} :
    /\ Len(r.s.quizzes) <= b.cap
    /\ course_url' = r.s.course_url
    /\ course_topics' = r.s.course_topics
    /\ quizzes' = r.s.quizzes
    /\ current_quiz' = r.s.current_quiz
    /\ selected_answers' = r.s.selected_answers
    /\ quiz_submitted' = r.s.quiz_submitted
    /\ last_quiz_score' = r.s.last_quiz_score
    /\ radio' = r.s.radio
    /\ roadmap' = r.s.roadmap
    /\ post_quiz' = r.s.post_quiz
    /\ post_quiz_answers' = r.s.post_quiz_answers
    /\ post_quiz_submitted' = r.s.post_quiz_submitted
    /\ last_post_quiz_score' = r.s.last_post_quiz_score
    /\ post_radio' = r.s.post_radio
    /\ run' = [event |-> ev, crashed |-> r.crashed, msgs |-> r.msgs,
               rendered |-> r.rendered, gen |-> r.gen, level |-> r.level,
               returned |-> r.returned, course_data |-> r.course_data]
    /\ UNCHANGED <<gen, lvl>>

\* Init: the state after the run that draws the page when the session starts
Init ==
    \E FirstRun \in {main(Blank, "start", "ok", NoResponse)} :
    /\ course_url = FirstRun.s.course_url
    /\ course_topics = FirstRun.s.course_topics
    /\ quizzes = FirstRun.s.quizzes
    /\ current_quiz = FirstRun.s.current_quiz
    /\ selected_answers = FirstRun.s.selected_answers
    /\ quiz_submitted = FirstRun.s.quiz_submitted
    /\ last_quiz_score = FirstRun.s.last_quiz_score
    /\ radio = FirstRun.s.radio
    /\ roadmap = FirstRun.s.roadmap
    /\ post_quiz = FirstRun.s.post_quiz
    /\ post_quiz_answers = FirstRun.s.post_quiz_answers
    /\ post_quiz_submitted = FirstRun.s.post_quiz_submitted
    /\ last_post_quiz_score = FirstRun.s.last_post_quiz_score
    /\ post_radio = FirstRun.s.post_radio
    /\ run = [event |-> "start", crashed |-> FirstRun.crashed, msgs |-> FirstRun.msgs,
              rendered |-> FirstRun.rendered, gen |-> FirstRun.gen, level |-> FirstRun.level,
              returned |-> FirstRun.returned, course_data |-> FirstRun.course_data]
    /\ gen = NoCall
    /\ lvl = NoLevel

\* the user types or clears the course URL
EnterURL(b) ==
    \E u \in b.urls \ {course_url} :
        \E s \in {[Session EXCEPT !.course_url = u]} :
            \E o \in Outcomes(s) : Finish(b, "Enter URL", main(s, "Enter URL", o, NoResponse))

\* the user changes the topics text, a level select box or the duration slider
ChangeOtherInput(b) ==
    /\ "Generate Quiz" \in run.rendered
    /\ \E s \in {Session}, o \in Outcomes(Session) :
           Finish(b, "Change input", main(s, "Change input", o, NoResponse))

GenerateQuiz(b) ==
    /\ "Generate Quiz" \in run.rendered
    /\ \E s \in {Session}, o \in Outcomes(Session), response \in b.pre :
           Finish(b, "Generate Quiz", main(s, "Generate Quiz", o, response))

\* the user picks another option of question i
SelectAnswer(b) ==
    \E i \in DOMAIN radio :
        \E k \in DOMAIN Values(Get(current_quiz[i], "options")) \ {radio[i]} :
            \E s \in {[Session EXCEPT !.radio[i] = k]} :
                \E o \in Outcomes(s) :
                    Finish(b, "Select answer", main(s, "Select answer", o, NoResponse))

SubmitAnswers(b) ==
    /\ "Submit Answers" \in run.rendered
    /\ \E s \in {Session}, o \in Outcomes(Session) :
           Finish(b, "Submit Answers", main(s, "Submit Answers", o, NoResponse))

GenerateRoadmap(b) ==
    /\ "Generate Roadmap" \in run.rendered
    /\ \E s \in {Session}, o \in Outcomes(Session), response \in RoadmapTexts \cup {"error"} :
           Finish(b, "Generate Roadmap", main(s, "Generate Roadmap", o, response))

GeneratePostQuiz(b) ==
    /\ "Generate Post-learning Quiz" \in run.rendered
    /\ \E s \in {Session}, o \in Outcomes(Session), response \in b.post :
           Finish(b, "Generate Post-learning Quiz",
                  main(s, "Generate Post-learning Quiz", o, response))

SelectPostAnswer(b) ==
    \E i \in DOMAIN post_radio :
        \E k \in DOMAIN PostOptions(post_quiz[i]) \ {post_radio[i]} :
            \E s \in {[Session EXCEPT !.post_radio[i] = k]} :
                \E o \in Outcomes(s) :
                    Finish(b, "Select post answer", main(s, "Select post answer", o, NoResponse))

SubmitPostQuiz(b) ==
    /\ "Submit Post-learning Quiz" \in run.rendered
    /\ \E s \in {Session}, o \in Outcomes(Session) :
           Finish(b, "Submit Post-learning Quiz",
                  main(s, "Submit Post-learning Quiz", o, NoResponse))

(***************************************************************************)
(* Spec: the whole session, every interaction, short quizzes               *)
(***************************************************************************)
SessionBounds ==
    [urls |-> {"", "u"},
     pre |-> Responses({PreGoodA, PreBadCorrect}, MaxSessionQuiz),
     post |-> Responses({PostGoodMcq, PostGoodTF, PostNoType}, MaxSessionQuiz),
     cap |-> MaxSessionHistory]

Next ==
    \/ EnterURL(SessionBounds)
    \/ ChangeOtherInput(SessionBounds)
    \/ GenerateQuiz(SessionBounds)
    \/ SelectAnswer(SessionBounds)
    \/ SubmitAnswers(SessionBounds)
    \/ GenerateRoadmap(SessionBounds)
    \/ GeneratePostQuiz(SessionBounds)
    \/ SelectPostAnswer(SessionBounds)
    \/ SubmitPostQuiz(SessionBounds)

Spec == Init /\ [][Next]_vars

(***************************************************************************)
(* SpecQuiz: the Pre-learning Quiz tab, no URL entered                     *)
(***************************************************************************)
QuizBounds ==
    [urls |-> {""},
     pre |-> Responses({PreGoodA, PreGoodB, PreOneOption, PreBadCorrect}, MaxQuiz),
     post |-> {},
     cap |-> MaxHistory]

NextQuiz ==
    \/ ChangeOtherInput(QuizBounds)
    \/ GenerateQuiz(QuizBounds)
    \/ SelectAnswer(QuizBounds)
    \/ SubmitAnswers(QuizBounds)

SpecQuiz == Init /\ [][NextQuiz]_vars

(***************************************************************************)
(* SpecAnswers: both quiz stages with quizzes of up to MaxQuiz questions,  *)
(* among them questions whose display raises; no URL entered, pre-quiz     *)
(* answers left at the preselected option                                  *)
(***************************************************************************)
AnswerBounds ==
    [urls |-> {""},
     pre |-> Responses({PreGoodA, PreOneOption}, MaxQuiz),
     post |-> Responses({PostGoodMcq, PostGoodTF, PostNoPrompt}, MaxQuiz),
     cap |-> MaxAnswerHistory]

NextAnswers ==
    \/ GenerateQuiz(AnswerBounds)
    \/ SubmitAnswers(AnswerBounds)
    \/ GenerateRoadmap(AnswerBounds)
    \/ GeneratePostQuiz(AnswerBounds)
    \/ SelectPostAnswer(AnswerBounds)
    \/ SubmitPostQuiz(AnswerBounds)

SpecAnswers == Init /\ [][NextAnswers]_vars

(***************************************************************************)
(* SpecGen and SpecLevel                                                   *)
(***************************************************************************)
NextGen ==
    \/ \E response \in Responses(PreEntries, MaxBatch) : CallFetchQuestions(response)
    \/ \E response \in Responses(PostEntries, MaxBatch) : CallGeneratePostLearningQuiz(response)

SpecGen == Init /\ [][NextGen]_vars

NextLevel ==
    \E t \in 1..MaxTotal : \E s \in 0..t : EvalPerformanceLevel(s, t)

SpecLevel == Init /\ [][NextLevel]_vars

(***************************************************************************)
(* Properties                                                              *)
(***************************************************************************)
\* the last run evaluated the 'Submit Answers' button and it had been clicked
SubmitAccepted == run.event = "Submit Answers" /\ "Submit Answers" \in run.rendered
PostSubmitAccepted ==
    run.event = "Submit Post-learning Quiz" /\ "Submit Post-learning Quiz" \in run.rendered

\* indices of the pre-quiz whose recorded answer is the option text at the correct key
Matching == {i \in DOMAIN current_quiz :
                 /\ i \in DOMAIN selected_answers
                 /\ selected_answers[i] = Get(Get(current_quiz[i], "options"),
                                              Get(current_quiz[i], "correct").s)}

\* C1: when 'Submit Answers' is accepted, the stored score is the number of
\* questions whose recorded answer is the option text at the correct key; all
\* answers right gives the size of the quiz, none right gives 0.
C1_PreQuizScore ==
    SubmitAccepted =>
        /\ last_quiz_score = <<Cardinality(Matching)>>
        /\ (Matching = DOMAIN current_quiz => last_quiz_score = <<Len(current_quiz)>>)
        /\ (Matching = {} => last_quiz_score = <<0>>)

C1_Witness ==
    /\ SubmitAccepted
    /\ Len(current_quiz) = 2
    /\ current_quiz[1] # current_quiz[2]
    /\ last_quiz_score = <<2>>

\* indices of the post-quiz that match by the rule of the pre-quiz: option text
\* at the correct key for an MCQ, the boolean for a TrueFalse
PostMatching == {i \in DOMAIN post_quiz :
                     /\ i \in DOMAIN post_quiz_answers
                     /\ IF PyEq(Get(post_quiz[i], "type"), JStr("mcq"))
                        THEN post_quiz_answers[i] = Get(Get(post_quiz[i], "options"),
                                                        Get(post_quiz[i], "correct").s)
                        ELSE post_quiz_answers[i] = Get(post_quiz[i], "correct")}

\* C2: when 'Submit Post-learning Quiz' is accepted, the stored score is the
\* number of questions matching by the pre-quiz rule, so a fully correct
\* post-quiz scores its size.
C2_PostQuizScore ==
    PostSubmitAccepted => last_post_quiz_score = <<Cardinality(PostMatching)>>

\* a successful generation in the step
GeneratedQuiz == run'.event = "Generate Quiz" /\ run'.gen = "ok"
GeneratedPostQuiz == run'.event = "Generate Post-learning Quiz" /\ run'.gen = "ok"

\* C3: once a QuizSet is submitted, no step other than a successful generation
\* of a new QuizSet changes the submitted flag or the stored score (a further
\* submit does not re-score), and a successful generation leaves the flag
\* unset; in both quiz stages.
C3_SubmitIdempotent ==
    [][/\ (quiz_submitted /\ ~GeneratedQuiz) =>
              (quiz_submitted' /\ last_quiz_score' = last_quiz_score)
       /\ GeneratedQuiz => ~quiz_submitted'
       /\ (post_quiz_submitted /\ ~GeneratedPostQuiz) =>
              (post_quiz_submitted' /\ last_post_quiz_score' = last_post_quiz_score)
       /\ GeneratedPostQuiz => ~post_quiz_submitted']_vars

\* a second click on 'Submit Answers' that the run ignored
C3_Witness ==
    /\ run.event = "Submit Answers"
    /\ "Submit Answers" \notin run.rendered
    /\ run.crashed = ""
    /\ quiz_submitted

\* C4: the history grows by exactly one entry in a step that accepts
\* 'Submit Answers' and is unchanged by every other step.
C4_HistoryOnePerSubmit ==
    [][/\ SubSeq(quizzes', 1, Len(quizzes)) = quizzes
       /\ Len(quizzes') = Len(quizzes) + (IF SubmitAccepted' THEN 1 ELSE 0)]_vars

\* C5: the level is Beginner iff 10s <= 5t, Intermediate iff 5t < 10s <= 8t,
\* Advanced otherwise.
C5_PerformanceLevel ==
    lvl.level # "none" =>
        LET s == lvl.user_score
            t == lvl.total_questions
        IN  /\ lvl.level = "Beginner" <=> 10 * s <= 5 * t
            /\ lvl.level = "Intermediate" <=> (5 * t < 10 * s /\ 10 * s <= 8 * t)
            /\ lvl.level = "Advanced" <=> 10 * s > 8 * t

\* exactly 80% of the total
C5_Witness ==
    lvl.user_score = 8 /\ lvl.total_questions = 10 /\ lvl.level = "Intermediate"

\* C6: 'Generate Roadmap' is on the page, and a roadmap is stored, only when a
\* pre-quiz score is stored and a submission has been recorded.
C6_RoadmapGate ==
    (roadmap # <<>> \/ "Generate Roadmap" \in run.rendered) =>
        (last_quiz_score # <<>> /\ quizzes # <<>>)

C6_Witness == run.event = "Generate Roadmap" /\ roadmap = <<"r1">>

\* C7: 'Generate Post-learning Quiz' is on the page, and a generation runs,
\* only with a non-empty roadmap stored; a stored post-quiz or post-quiz score
\* implies that a roadmap has been stored.
C7_PostQuizGate ==
    /\ ("Generate Post-learning Quiz" \in run.rendered
        \/ (run.event = "Generate Post-learning Quiz" /\ run.gen # "none"))
           => (roadmap # <<>> /\ roadmap[1] # "")
    /\ (post_quiz # <<>> \/ last_post_quiz_score # <<>>) => roadmap # <<>>

C7_Witness ==
    run.event = "Generate Post-learning Quiz" /\ run.gen = "ok" /\ post_quiz # <<>>

\* a retained entry with every required field present and well-typed
ValidQuestion(fn, q) ==
    /\ IsDict(q)
    /\ Has(q, "correct")
    /\ IF fn = "fetch_questions" THEN
           /\ Has(q, "mcq") /\ IsStr(Get(q, "mcq"))
           /\ Has(q, "options") /\ IsDict(Get(q, "options"))
           /\ IsStr(Get(q, "correct")) /\ Has(Get(q, "options"), Get(q, "correct").s)
       ELSE
           /\ Has(q, "question") /\ IsStr(Get(q, "question"))
           /\ Has(q, "type")
           /\ \/ /\ Get(q, "type") = JStr("mcq")
                 /\ Has(q, "options") /\ IsDict(Get(q, "options"))
                 /\ IsStr(Get(q, "correct")) /\ Has(Get(q, "options"), Get(q, "correct").s)
              \/ /\ Get(q, "type") = JStr("true_false")
                 /\ IsBool(Get(q, "correct"))

\* C8: every question a generator retains is valid.
C8_RetainedValid ==
    \A i \in DOMAIN gen.out : ValidQuestion(gen.fn, gen.out[i])

\* an entry free of the malformations: missing type, missing options, missing
\* correct, correct not among the options
WellFormedEntry(fn, q) ==
    /\ IsDict(q)
    /\ Has(q, "correct")
    /\ IF fn = "fetch_questions" THEN
           /\ Has(q, "mcq") /\ IsStr(Get(q, "mcq"))
           /\ Has(q, "options") /\ IsDict(Get(q, "options"))
           /\ IsStr(Get(q, "correct")) /\ Has(Get(q, "options"), Get(q, "correct").s)
       ELSE
           /\ Has(q, "type")
           /\ \/ /\ Get(q, "type") = JStr("mcq")
                 /\ Has(q, "options") /\ IsDict(Get(q, "options"))
                 /\ IsStr(Get(q, "correct")) /\ Has(Get(q, "options"), Get(q, "correct").s)
              \/ /\ Get(q, "type") = JStr("true_false")
                 /\ IsBool(Get(q, "correct"))

\* C9: from a parsed batch a generator returns exactly the well-formed
\* entries, in their original order.
C9_DroppedIndividually ==
    (gen.fn # "none" /\ gen.response.kind = "json") =>
        LET batch == gen.response.value.elems
        IN  gen.out = SelectSeq2(batch, [i \in DOMAIN batch |-> WellFormedEntry(gen.fn, batch[i])])

\* C10: a generation that ends with an empty result shows a message and leaves
\* the QuizSet, AnswerRecord, submitted flag and score of its stage, and the
\* history, unchanged.
C10_FailedGenerationFrame ==
    [][run'.gen = "failed" =>
           /\ \E m \in run'.msgs : m \in {"error: Failed to generate questions. Try again.",
                                         "error: Failed to generate post-learning questions. Try again."}
           /\ quizzes' = quizzes
           /\ run'.event = "Generate Quiz" =>
                  UNCHANGED <<current_quiz, selected_answers, quiz_submitted, last_quiz_score>>
           /\ run'.event = "Generate Post-learning Quiz" =>
                  UNCHANGED <<post_quiz, post_quiz_answers, post_quiz_submitted,
                              last_post_quiz_score>>]_vars

\* the last run reached the 'Generate Roadmap' button and it had been clicked
RoadmapClicked == run.event = "Generate Roadmap" /\ "Generate Roadmap" \in run.rendered

\* C11: a 'Generate Roadmap' run to which the service returned a text stores
\* exactly that text as the roadmap, replacing the earlier one; a run in which
\* the request failed shows an error message and leaves the stored roadmap
\* (absent or present) as it was.
C11_RoadmapStorage ==
    [][RoadmapClicked' =>
           IF run'.returned # <<>>
           THEN /\ roadmap' = run'.returned
                /\ "success: Roadmap generated!" \in run'.msgs
           ELSE /\ roadmap' = roadmap
                /\ "error: Error generating roadmap" \in run'.msgs
                /\ run'.crashed \in {"", "tab4"}]_vars

\* a failed request after a roadmap had been stored
C11_Witness ==
    /\ RoadmapClicked
    /\ "error: Error generating roadmap" \in run.msgs
    /\ roadmap = <<"r1">>

\* the last run called scrape_course and the fetch failed: requests.get raised,
\* or the status was not 200
ScrapeFailed ==
    /\ course_url # ""
    /\ run.crashed = "tab1" \/ "error: Failed to fetch content" \in run.msgs

\* C12: a failed fetch, by a non-success status or by a transport failure of
\* the GET, lets no exception out of scrape_course, shows the error message
\* and leaves the course data of the run empty.
C12_ScrapeFailureRecovered ==
    ScrapeFailed =>
        /\ run.crashed # "tab1"
        /\ "error: Failed to fetch content" \in run.msgs
        /\ run.course_data = NoData

\* C13: in every state the indices with a recorded answer are indices of the
\* stored QuizSet and every recorded answer is one the question now stored at
\* its index offers, in both quiz stages; a run that stores a new QuizSet
\* leaves answers only for the questions it displayed.
C13_AnswersOfCurrentQuiz ==
    /\ [](/\ DOMAIN selected_answers \subseteq DOMAIN current_quiz
          /\ \A i \in DOMAIN selected_answers :
                 \E k \in DOMAIN Values(Get(current_quiz[i], "options")) :
                     selected_answers[i] = Values(Get(current_quiz[i], "options"))[k]
          /\ DOMAIN post_quiz_answers \subseteq DOMAIN post_quiz
          /\ \A i \in DOMAIN post_quiz_answers :
                 \E k \in DOMAIN PostOptions(post_quiz[i]) :
                     post_quiz_answers[i] = PostAnswer(post_quiz[i], k))
    /\ [][/\ GeneratedQuiz => DOMAIN selected_answers' = DOMAIN radio'
          /\ GeneratedPostQuiz => DOMAIN post_quiz_answers' = DOMAIN post_radio']_vars

\* a one-question QuizSet in each stage, each generated after a two-question
\* one had been answered and submitted
C13_Witness ==
    /\ quizzes # <<>> /\ quizzes[1].total = 2
    /\ Len(current_quiz) = 1 /\ DOMAIN selected_answers = {1}
    /\ last_post_quiz_score = <<2>>
    /\ Len(post_quiz) = 1 /\ DOMAIN post_quiz_answers = {1}

\* C14: with no URL entered, or after a failed scrape, 'Generate Quiz' is on
\* the page, and a generation that returns at least one valid question leaves
\* the new QuizSet stored with an empty AnswerRecord and the submitted flag
\* unset.
C14_QuizWithoutScrape ==
    (course_url = "" \/ ScrapeFailed) =>
        /\ "Generate Quiz" \in run.rendered
        /\ (run.event = "Generate Quiz" /\ run.gen = "ok") =>
               /\ current_quiz # <<>>
               /\ selected_answers = <<>>
               /\ ~quiz_submitted

\* C15: a step that accepts 'Submit Post-learning Quiz' appends to the history
\* an entry with the post-quiz score and the size of the post-quiz.
C15_PostQuizInHistory ==
    [][PostSubmitAccepted' =>
           \E i \in (Len(quizzes) + 1)..Len(quizzes') :
               quizzes'[i] = HistoryEntry(last_post_quiz_score'[1], Len(post_quiz'))]_vars

\* C16: whenever a pre-quiz score is stored it lies between 0 and the number
\* of questions of the stored pre-quiz QuizSet, the total the Roadmap tab
\* uses with it.
C16_ScoreWithinCurrentQuiz ==
    last_quiz_score # <<>> =>
        (0 <= last_quiz_score[1] /\ last_quiz_score[1] <= Len(current_quiz))

\* C17: whenever the pre-quiz is submitted, the stored score is the number of
\* questions whose currently recorded answer is the correct option text.
C17_ScoreMatchesRecordedAnswers ==
    quiz_submitted => last_quiz_score = <<Cardinality(Matching)>>

\* C18: every entry of the history has 0 <= score <= total and total >= 1, and
\* every entry a step appends pairs the stored score with the size of the
\* stored QuizSet, that score being the one computed for this QuizSet: by
\* the submission accepted in the step, or by an earlier one since which the
\* QuizSet and the score have not changed.  No step removes or alters an entry.
C18_HistoryEntriesWellFormed ==
    /\ [](\A i \in DOMAIN quizzes :
              /\ 0 <= quizzes[i].score
              /\ quizzes[i].score <= quizzes[i].total
              /\ quizzes[i].total >= 1)
    /\ [][IF Len(quizzes') > Len(quizzes)
          THEN /\ quizzes' = Append(quizzes, HistoryEntry(last_quiz_score'[1],
                                                          Len(current_quiz')))
               /\ quiz_submitted'
               /\ \/ SubmitAccepted' /\ last_quiz_score' = <<Cardinality(Matching')>>
                  \/ /\ quiz_submitted
                     /\ current_quiz' = current_quiz
                     /\ last_quiz_score' = last_quiz_score
          ELSE quizzes' = quizzes]_vars

\* entries of two QuizSets of different sizes, the last one appended by a run
\* whose generation failed, after a selection and a submission
C18_Witness ==
    /\ run.event = "Generate Quiz" /\ run.gen = "failed"
    /\ Len(quizzes) = 3
    /\ quizzes[1].total = 2
    /\ quizzes[3] = HistoryEntry(1, 1)
    /\ current_quiz = <<PreGoodA>>

====
